---- MODULE Spec2Model ----
(***************************************************************************)
(* A model of probe-rs/src/debug/mod.rs: the ObjectRef handle type, its    *)
(* conversions and ordering, the process-wide handle allocator, the        *)
(* SourceLocation path resolution and the loop that drives a DWARF         *)
(* location expression against the live target.                            *)
(*                                                                         *)
(* TLC integers are 32-bit signed, so the program's wider integers are     *)
(* kept at their true width in 16-bit halves: a u32 is [h, l] with value   *)
(* h * 2^16 + l, and an i64 is [hi, lo] with hi the signed upper 32 bits   *)
(* and lo the u32 of the lower 32 bits (value hi * 2^32 + lo).             *)
(***************************************************************************)
EXTENDS Integers, Sequences, FiniteSets, TLC

VARIABLES
    value,      \* conversions: the i64 handed to ObjectRef::from
    a,          \* conversions: an ObjectRef operand
    b,          \* conversions: a second ObjectRef operand (cmp)
    c,          \* conversions: a third ObjectRef operand (cmp)
    s,          \* conversions: the text handed to ObjectRef::from_str
    out,        \* conversions: the result of the last conversion applied
    CACHE_KEY,  \* allocator: the process-wide AtomicU32
    issuedUpTo, \* allocator: handles 1..issuedUpTo were issued before the first modelled call
    pc,         \* allocator: each handler's position in get_object_reference
    key,        \* allocator: each handler's local `key`
    ord,        \* allocator: the ordinal (1st, 2nd, ...) of each handler's call in progress
    calls,      \* allocator: the number of modelled calls started
    returned,   \* allocator: the modelled calls that ended, in the order they ended
    aborted,    \* allocator: the process was ended by a panic
    evalPc,     \* evaluation: "init", "loop", "done" or "panicked"
    result,     \* evaluation: the EvaluationResult the loop holds
    stackframe_cfa, \* evaluation: the frame's CFA, an Option<u64>
    memory,     \* evaluation: the bytes of the target's memory
    core_regs,  \* evaluation: the values of the target's core registers
    iter,       \* evaluation: what the last turn of the loop did
    panicMsg,   \* evaluation: the message of the panic that ended it
    requests,   \* evaluation: the requests the evaluator has made
    resumes,    \* evaluation: the resume_with_* calls made
    directory,  \* source location: SourceLocation::directory, an Option<TypedPathBuf>
    file,       \* source location: SourceLocation::file, an Option<String>
    native,     \* source location: the path family of the host ("Unix" or "Windows")
    fs,         \* source location: the paths that exist on the host
    pathOut     \* source location: the result of the last path operation

convVars == <<value, a, b, c, s, out>>

allocVars == <<CACHE_KEY, issuedUpTo, pc, key, ord, calls, returned, aborted>>

evalVars ==
    <<evalPc, result, stackframe_cfa, memory, core_regs, iter, panicMsg, requests, resumes>>

pathVars == <<directory, file, native, fs, pathOut>>

vars == <<convVars, allocVars, evalVars, pathVars>>

\* What the actions of one part leave alone.
notConvVars == <<allocVars, evalVars, pathVars>>

notAllocVars == <<convVars, evalVars, pathVars>>

notEvalVars == <<convVars, allocVars, pathVars>>

notPathVars == <<convVars, allocVars, evalVars>>

----------------------------------------------------------------------------
(* Fixed-width integers *)

Half == 2^16

MaxHalf == Half - 1

MaxI32 == (2^30 - 1) + 2^30

MinI32 == -MaxI32 - 1

U32(h, l) == [h |-> h, l |-> l]

Zero32 == U32(0, 0)

MaxU32 == U32(MaxHalf, MaxHalf)

I64(hi, lo) == [hi |-> hi, lo |-> lo]

Zero64 == I64(0, Zero32)

\* Ordering of two u32 values.
CmpU32(x, y) ==
    IF x.h # y.h THEN (IF x.h < y.h THEN "Less" ELSE "Greater")
    ELSE IF x.l # y.l THEN (IF x.l < y.l THEN "Less" ELSE "Greater")
    ELSE "Equal"

\* i64::cmp: the signed upper half decides, then the unsigned lower half.
CmpI64(x, y) ==
    IF x.hi # y.hi THEN (IF x.hi < y.hi THEN "Less" ELSE "Greater")
    ELSE CmpU32(x.lo, y.lo)

\* u32 wrapping addition of 1: AtomicU32::fetch_add wraps around on overflow.
WrappingAdd1(x) ==
    IF x.l # MaxHalf THEN U32(x.h, x.l + 1)
    ELSE IF x.h # MaxHalf THEN U32(x.h + 1, 0)
    ELSE Zero32

\* v + n for a small n >= 0, carried through the halves.
AddSmall64(v, n) ==
    LET l2 == v.lo.l + n
        h2 == v.lo.h + (l2 \div Half)
    IN  I64(v.hi + (h2 \div Half), U32(h2 % Half, l2 % Half))

\* `v as i64` of a u32: zero extension.
U32AsI64(v) == I64(0, v)

\* `value as u32` of an i64: the low 32 bits, the upper 32 bits dropped.
I64AsU32(v) == v.lo

----------------------------------------------------------------------------
(* Option / Result *)

None == [tag |-> "None"]

Some(x) == [tag |-> "Some", val |-> x]

Ok(x) == [tag |-> "Ok", val |-> x]

Err(e) == [tag |-> "Err", err |-> e]

----------------------------------------------------------------------------
(* ObjectRef *)

Valid(v) == [tag |-> "Valid", v |-> v]

Invalid == [tag |-> "Invalid"]

\* NonZeroU32::try_from(u32): fails on zero only.
NonZeroU32_try_from(v) == IF v = Zero32 THEN Err("TryFromIntError") ELSE Ok(v)

\* `v.get() as i32 as i64`: a cast through the signed 32-bit type.
i64_from_sign_extended(r) ==
    IF r.tag = "Valid" THEN I64(IF r.v.h >= Half \div 2 THEN -1 ELSE 0, r.v) ELSE Zero64

\* impl From<ObjectRef> for i64
i64_from(r) ==
    IF r.tag = "Valid" THEN U32AsI64(r.v) ELSE Zero64

\* `value as u16`: a cast to a narrower type than the handle's.
ObjectRef_from_keep16(v) ==
    IF v.hi < 0 THEN Invalid
    ELSE LET n == NonZeroU32_try_from(U32(0, I64AsU32(v).l))
         IN  IF n.tag = "Ok" THEN Valid(n.val) ELSE Invalid

\* impl From<i64> for ObjectRef
ObjectRef_from(v) ==
    IF v.hi < 0 THEN Invalid
    ELSE LET n == NonZeroU32_try_from(I64AsU32(v))
         IN  IF n.tag = "Ok" THEN Valid(n.val) ELSE Invalid

\* The decimal digits of str::parse::<i64>.
Digits == <<"0", "1", "2", "3", "4", "5", "6", "7", "8", "9">>

IsDigit(ch) == \E i \in 1..10 : Digits[i] = ch

DigitVal(ch) == (CHOOSE i \in 1..10 : Digits[i] = ch) - 1

\* acc * 10 + d on a non-negative i64, half by half with carries.
MulAdd10(acc, d) ==
    LET l2 == acc.lo.l * 10 + d
        h2 == acc.lo.h * 10 + (l2 \div Half)
    IN  I64(acc.hi * 10 + (h2 \div Half), U32(h2 % Half, l2 % Half))

\* The magnitude of a run of decimal digits, most significant first.
RECURSIVE ParseDigits(_, _)
ParseDigits(acc, str) ==
    IF str = <<>> THEN acc
    ELSE ParseDigits(MulAdd10(acc, DigitVal(Head(str))), Tail(str))

\* Two's complement negation of a non-negative i64.
Neg64(v) ==
    IF v.lo = Zero32 THEN I64(-v.hi, Zero32)
    ELSE IF v.lo.l = 0 THEN I64(-v.hi - 1, U32(Half - v.lo.h, 0))
    ELSE I64(-v.hi - 1, U32(MaxHalf - v.lo.h, Half - v.lo.l))

\* s.parse::<i64>(): an optional sign, then one or more decimal digits and
\* nothing else. The texts drawn have at most ten digits, which no i64
\* overflows on.
parse_i64(str) ==
    LET signed == str # <<>> /\ Head(str) \in {"+", "-"}
        digits == IF signed THEN Tail(str) ELSE str
    IN  IF digits = <<>> \/ \E i \in 1..Len(digits) : ~IsDigit(digits[i])
        THEN Err("ParseIntError")
        ELSE IF signed /\ Head(str) = "-"
             THEN Ok(Neg64(ParseDigits(Zero64, digits)))
             ELSE Ok(ParseDigits(Zero64, digits))

\* impl FromStr for ObjectRef
from_str(str) ==
    LET parsed == parse_i64(str)
    IN  IF parsed.tag = "Err" THEN parsed ELSE Ok(ObjectRef_from(parsed.val))

\* impl Ord for ObjectRef
cmp(x, y) == CmpI64(i64_from(x), i64_from(y))

\* impl PartialOrd for ObjectRef
partial_cmp(x, y) == Some(cmp(x, y))

----------------------------------------------------------------------------
(* The handle allocator *)

NumHandlers == 2

MaxCalls == 5

Handlers == 1..NumHandlers

\* NonZeroU32::new(key): None on zero only.
NonZeroU32_new(v) == IF v = Zero32 THEN None ELSE Some(v)

Panic == [tag |-> "Panic"]

\* CACHE_KEY.fetch_add(1, Ordering::SeqCst): one atomic step that returns the
\* previous value and stores the wrapped sum.
fetch_add(counter) == [prev |-> counter, next |-> WrappingAdd1(counter)]

\* ObjectRef::Valid(NonZeroU32::new(key).unwrap()): the unwrap panics on None.
valid_or_panic(k) ==
    LET nz == NonZeroU32_new(k)
    IN  IF nz.tag = "Some" THEN Valid(nz.val) ELSE Panic

\* The counters a process can have reached before the modelled calls: after
\* u completed calls the counter is u + 1 and the handles 1..u are out.
PriorSamples ==
    {U32(h, l) : h \in {0, 1, MaxHalf}, l \in {0, 1, MaxHalf - 2, MaxHalf - 1, MaxHalf}}

AllocInit ==
    /\ issuedUpTo \in PriorSamples
    /\ CACHE_KEY = WrappingAdd1(issuedUpTo)
    /\ pc = [h \in Handlers |-> "idle"]
    /\ key = [h \in Handlers |-> Zero32]
    /\ ord = [h \in Handlers |-> Zero64]
    /\ calls = 0
    /\ returned = <<>>
    /\ aborted = FALSE

\* The allocator of a process that never calls it.
AllocQuiet ==
    /\ issuedUpTo = Zero32
    /\ CACHE_KEY = WrappingAdd1(Zero32)
    /\ pc = [h \in Handlers |-> "idle"]
    /\ key = [h \in Handlers |-> Zero32]
    /\ ord = [h \in Handlers |-> Zero64]
    /\ calls = 0
    /\ returned = <<>>
    /\ aborted = FALSE

\* get_object_reference, first line: let key = CACHE_KEY.fetch_add(1, SeqCst)
FetchAdd(h) ==
    /\ ~aborted
    /\ pc[h] = "idle"
    /\ calls < MaxCalls
    /\ LET f == fetch_add(CACHE_KEY)
       IN  /\ key' = [key EXCEPT ![h] = f.prev]
           /\ CACHE_KEY' = f.next
    /\ calls' = calls + 1
    /\ ord' = [ord EXCEPT ![h] = AddSmall64(U32AsI64(issuedUpTo), calls + 1)]
    /\ pc' = [pc EXCEPT ![h] = "fetched"]
    /\ UNCHANGED <<issuedUpTo, returned, aborted, notAllocVars>>

\* get_object_reference, second line: the handle is returned, or the unwrap
\* panics; the panic unwinds out of the call or, in a build with
\* panic = "abort", ends the process.
Return(h) ==
    /\ ~aborted
    /\ pc[h] = "fetched"
    /\ returned' = Append(returned, [h |-> h, ord |-> ord[h], key |-> key[h],
                                     res |-> valid_or_panic(key[h])])
    /\ pc' = [pc EXCEPT ![h] = "idle"]
    /\ aborted' \in (IF valid_or_panic(key[h]) = Panic THEN {FALSE, TRUE} ELSE {FALSE})
    /\ UNCHANGED <<CACHE_KEY, issuedUpTo, key, ord, calls, notAllocVars>>

AllocNext == \E h \in Handlers : FetchAdd(h) \/ Return(h)

SeqNext == FetchAdd(1) \/ Return(1)

----------------------------------------------------------------------------
(* Conversions applied to drawn inputs *)

NoInput == [op |-> "none"]

\* No conversion is applied.
ConvQuiet ==
    /\ value = Zero64
    /\ a = Invalid
    /\ b = Invalid
    /\ c = Invalid
    /\ s = <<>>
    /\ out = NoInput

HalfSamples == {0, 1, MaxHalf}

HiSamples == {MinI32, -1, 0, 1, MaxI32}

I64Samples == {I64(hi, U32(h, l)) : hi \in HiSamples, h \in HalfSamples, l \in HalfSamples}

RefSamples ==
    {Invalid} \cup {Valid(v) : v \in {U32(h, l) : h \in HalfSamples, l \in HalfSamples} \ {Zero32}}

StrSamples ==
    { <<>>, <<"0">>, <<"7">>, <<"-", "1">>, <<"+", "7">>, <<"-", "0">>, <<"-">>, <<"+">>,
      <<"x">>, <<"1", "x">>, <<" ", "1">>, <<"1", " ">>, <<"6", "5", "5", "3", "6">>,
      <<"4", "2", "9", "4", "9", "6", "7", "2", "9", "5">>,
      <<"4", "2", "9", "4", "9", "6", "7", "2", "9", "6">>,
      <<"4", "2", "9", "4", "9", "6", "7", "2", "9", "7">>,
      <<"-", "4", "2", "9", "4", "9", "6", "7", "2", "9", "7">> }

ConvInit ==
    /\ value \in I64Samples
    /\ a \in RefSamples
    /\ s \in StrSamples
    /\ b = Invalid
    /\ c = Invalid
    /\ out = NoInput

OrdInit ==
    /\ a \in RefSamples
    /\ b \in RefSamples
    /\ c \in RefSamples
    /\ value = Zero64
    /\ s = <<>>
    /\ out = NoInput

\* ObjectRef::from(value)
Decode ==
    /\ out' = [op |-> "from_i64", res |-> ObjectRef_from(value)]
    /\ UNCHANGED <<value, a, b, c, s, notConvVars>>

\* s.parse::<ObjectRef>()
Parse ==
    /\ out' = [op |-> "from_str", res |-> from_str(s)]
    /\ UNCHANGED <<value, a, b, c, s, notConvVars>>

\* i64::from(a)
Encode ==
    /\ out' = [op |-> "into_i64", res |-> i64_from(a)]
    /\ UNCHANGED <<value, a, b, c, s, notConvVars>>

\* ObjectRef::from(i64::from(a)): the transport round trip
RoundTrip ==
    /\ out' = [op |-> "round_trip", sent |-> i64_from(a),
               res |-> ObjectRef_from(i64_from(a))]
    /\ UNCHANGED <<value, a, b, c, s, notConvVars>>

\* The comparisons of a, b and c, and a == b.
Compare ==
    /\ out' = [op |-> "cmp", ab |-> cmp(a, b), ba |-> cmp(b, a), bc |-> cmp(b, c),
               ac |-> cmp(a, c), partial |-> partial_cmp(a, b), eq |-> (a = b),
               ia |-> i64_from(a), ib |-> i64_from(b)]
    /\ UNCHANGED <<value, a, b, c, s, notConvVars>>

ConvNext == Decode \/ Parse \/ Encode \/ RoundTrip

OrdNext == Compare \/ Encode

----------------------------------------------------------------------------
(* The loop that drives a location expression (Exprloc) *)

MaxRequests == 3

\* The byte order of the readers of the debug data.
EndianReader == "LittleEndian"

\* The addresses the target's memory is modelled at.
TargetAddrs == 0..11

MemorySamples ==
    { [i \in TargetAddrs |-> (i * 37 + 18) % 256], [i \in TargetAddrs |-> 255 - i] }

Registers == {7, 13}

RegisterSamples == [Registers -> {0, 2^29 + 2^12}]

CfaSamples == {None, Some(0), Some(2^29 + 2^12)}

\* The requests a gimli evaluation can come back with, and Complete.
MemoryRequests ==
    {[kind |-> "RequiresMemory", address |-> ad, size |-> sz] :
        ad \in {0, 4}, sz \in {1, 2, 3, 4, 8}}

RegisterRequests ==
    {[kind |-> "RequiresRegister", register |-> r, base_type |-> bt] :
        r \in Registers, bt \in {0, 1}}

RelocationRequests == {[kind |-> "RequiresRelocatedAddress", address |-> ad] : ad \in {0, 4}}

OtherRequests == {[kind |-> "RequiresTls"], [kind |-> "RequiresCallFrameCfa"]}

Requests ==
    MemoryRequests \cup {[kind |-> "RequiresFrameBase"]} \cup RegisterRequests
        \cup RelocationRequests \cup OtherRequests

Complete == [kind |-> "Complete"]

\* evaluate() and every resume_with_*() return a Result: Err stands for any
\* gimli error, which the loop unwraps.
EvalError == [kind |-> "Err"]

\* What evaluate() or a resume can return once n requests have been made.
Advances(n) == {Complete, EvalError} \cup (IF n < MaxRequests THEN Requests ELSE {})

NoIter == [req |-> Complete, io |-> <<>>, resume |-> None, exit |-> "none"]

\* core.read(address, &mut buff) on a buffer of len bytes: the bytes at
\* address, address + 1, ...
read(mem, address, len) == [i \in 1..len |-> mem[address + i - 1]]

\* The value for a size with every other size read as a u8.
memory_value_truncating(size, buff) ==
    IF size = 2 THEN Some([ty |-> "U16", v |-> buff[1] * 256 + buff[2]])
    ELSE IF size = 4
    THEN Some([ty |-> "U32", v |-> U32(buff[1] * 256 + buff[2], buff[3] * 256 + buff[4])])
    ELSE Some([ty |-> "U8", v |-> buff[1]])

\* match size { 1 => U8(buff[0]), 2 => U16(buff[0] << 8 | buff[1]),
\*              4 => U32(buff[0] << 24 | buff[1] << 16 | buff[2] << 8 | buff[3]),
\*              x => unimplemented!() }: None stands for the last arm.
memory_value(size, buff) ==
    IF size = 1 THEN Some([ty |-> "U8", v |-> buff[1]])
    ELSE IF size = 2 THEN Some([ty |-> "U16", v |-> buff[1] * 256 + buff[2]])
    ELSE IF size = 4
    THEN Some([ty |-> "U32", v |-> U32(buff[1] * 256 + buff[2], buff[3] * 256 + buff[4])])
    ELSE None

\* The register arm with the base type ignored.
register_value_any_base(base_type, raw_value) == Some([ty |-> "Generic", v |-> raw_value])

\* if base_type != UnitOffset(0) { unimplemented!() } Value::Generic(raw_value)
register_value(base_type, raw_value) ==
    IF base_type # 0 THEN None ELSE Some([ty |-> "Generic", v |-> raw_value])

EvalInit ==
    /\ evalPc = "init"
    /\ result = Complete
    /\ stackframe_cfa \in CfaSamples
    /\ memory \in MemorySamples
    /\ core_regs \in RegisterSamples
    /\ iter = NoIter
    /\ panicMsg = ""
    /\ requests = 0
    /\ resumes = 0

\* No expression is evaluated.
EvalQuiet ==
    /\ evalPc = "init"
    /\ result = Complete
    /\ stackframe_cfa = None
    /\ memory = [i \in TargetAddrs |-> 0]
    /\ core_regs = [r \in Registers |-> 0]
    /\ iter = NoIter
    /\ panicMsg = ""
    /\ requests = 0
    /\ resumes = 0

\* `.unwrap()` of what the evaluator returned: the loop goes on with it, or
\* the unwrap panics.
Advance(nr) ==
    /\ result' = nr
    /\ requests' = IF nr \in Requests THEN requests + 1 ELSE requests
    /\ evalPc' = IF nr = EvalError THEN "panicked" ELSE "loop"
    /\ panicMsg' = IF nr = EvalError THEN "unwrap on an Err value" ELSE ""

\* A panic in the arm itself: the evaluator is not resumed.
PanicInArm(io, msg) ==
    /\ iter' = [req |-> result, io |-> io, resume |-> None, exit |-> "panic"]
    /\ evalPc' = "panicked"
    /\ panicMsg' = msg
    /\ UNCHANGED <<result, requests, resumes>>

\* evaluation.resume_with_<kind>(v).unwrap()
Resume(io, kind, v) ==
    /\ iter' = [req |-> result, io |-> io, resume |-> Some([kind |-> kind, value |-> v]),
                exit |-> "resumed"]
    /\ resumes' = resumes + 1
    /\ \E nr \in Advances(requests) : Advance(nr)

\* let mut result = evaluation.evaluate().unwrap();
Evaluate ==
    /\ evalPc = "init"
    /\ \E nr \in Advances(requests) : Advance(nr)
    /\ UNCHANGED <<iter, resumes, stackframe_cfa, memory, core_regs, notEvalVars>>

\* Complete => break
ArmComplete ==
    /\ evalPc = "loop"
    /\ result = Complete
    /\ evalPc' = "done"
    /\ iter' = [req |-> result, io |-> <<>>, resume |-> None, exit |-> "break"]
    /\ UNCHANGED <<result, panicMsg, requests, resumes, stackframe_cfa, memory, core_regs,
                   notEvalVars>>

\* RequiresMemory { address, size, .. } => the read, then the match on size
ArmRequiresMemory ==
    /\ evalPc = "loop"
    /\ result.kind = "RequiresMemory"
    /\ LET io == <<[op |-> "read", address |-> result.address, len |-> result.size]>>
           buff == read(memory, result.address, result.size)
           val == memory_value(result.size, buff)
       IN  \/ /\ val = None
              /\ PanicInArm(io, "not implemented")
           \/ /\ val # None
              /\ Resume(io, "memory", val.val)
           \/ PanicInArm(io, "Failed to read memory")
    /\ UNCHANGED <<stackframe_cfa, memory, core_regs, notEvalVars>>

\* RequiresFrameBase => resume_with_frame_base(stackframe_cfa.unwrap())
ArmRequiresFrameBase ==
    /\ evalPc = "loop"
    /\ result.kind = "RequiresFrameBase"
    /\ \/ /\ stackframe_cfa = None
          /\ PanicInArm(<<>>, "unwrap on a None value")
       \/ /\ stackframe_cfa # None
          /\ Resume(<<>>, "frame_base", stackframe_cfa.val)
    /\ UNCHANGED <<stackframe_cfa, memory, core_regs, notEvalVars>>

\* RequiresRegister { register, base_type } => the register read, then the
\* check of the base type
ArmRequiresRegister ==
    /\ evalPc = "loop"
    /\ result.kind = "RequiresRegister"
    /\ LET io == <<[op |-> "read_core_reg", register |-> result.register]>>
           val == register_value(result.base_type, core_regs[result.register])
       IN  \/ /\ val = None
              /\ PanicInArm(io, "not implemented")
           \/ /\ val # None
              /\ Resume(io, "register", val.val)
           \/ PanicInArm(io, "Failed to read memory")
    /\ UNCHANGED <<stackframe_cfa, memory, core_regs, notEvalVars>>

\* RequiresRelocatedAddress(address_index) => resume_with_relocated_address
ArmRequiresRelocatedAddress ==
    /\ evalPc = "loop"
    /\ result.kind = "RequiresRelocatedAddress"
    /\ Resume(<<>>, "relocated_address", result.address)
    /\ UNCHANGED <<stackframe_cfa, memory, core_regs, notEvalVars>>

\* x => todo!()
ArmOther ==
    /\ evalPc = "loop"
    /\ result \in OtherRequests
    /\ PanicInArm(<<>>, "not yet implemented")
    /\ UNCHANGED <<stackframe_cfa, memory, core_regs, notEvalVars>>

EvalNext ==
    \/ Evaluate
    \/ ArmComplete
    \/ ArmRequiresMemory
    \/ ArmRequiresFrameBase
    \/ ArmRequiresRegister
    \/ ArmRequiresRelocatedAddress
    \/ ArmOther

----------------------------------------------------------------------------
(* SourceLocation: the path of the source file *)

(* A path is its text cut into separators and names, <<"/", "src">> for     *)
(* /src; a TypedPathBuf is a path with the family, Unix or Windows, its     *)
(* text is read in.                                                         *)

TypedPath(kind, text) == [kind |-> kind, text |-> text]

Separators == {"/", "\\"}

\* A name that is not valid UTF-8 (DWARF directory names are bytes).
NonUtf8Name == "non-utf8"

DirectorySamples ==
    { None,
      Some(TypedPath("Unix", <<"/", "src">>)),
      Some(TypedPath("Unix", <<"/", "src", "/">>)),
      Some(TypedPath("Unix", <<"lib">>)),
      Some(TypedPath("Unix", <<"/", NonUtf8Name>>)),
      Some(TypedPath("Windows", <<"C:", "\\", "src">>)),
      Some(TypedPath("Windows", <<"C:", "\\", NonUtf8Name>>)) }

FileSamples == {None, Some(<<"main.rs">>), Some(<<"/", "abs.rs">>), Some(<<>>)}

FsSamples ==
    { {},
      {<<"/", "src", "/", "main.rs">>},
      {<<"/", "src", "/", "main.rs">>, <<"/", "src", "/">>, <<"/", "abs.rs">>,
       <<"/", NonUtf8Name, "/", "main.rs">>, <<"C:", "\\", "src", "\\", "main.rs">>,
       <<"C:", "\\", NonUtf8Name, "\\", "main.rs">>} }

\* TypedPathBuf::join: an empty path changes nothing, a rooted path replaces
\* the directory (on Windows, all of it but the drive), and any other path
\* is appended after a separator.
join(dir, path) ==
    LET sep == IF dir.kind = "Unix" THEN "/" ELSE "\\"
        rooted == path # <<>> /\ (IF dir.kind = "Unix" THEN Head(path) = "/"
                                  ELSE Head(path) \in Separators)
        drive == IF dir.kind = "Windows" /\ dir.text # <<>> /\ Head(dir.text) \notin Separators
                 THEN <<Head(dir.text)>> ELSE <<>>
        ends == dir.text = <<>> \/ dir.text[Len(dir.text)] = sep
    IN  IF path = <<>> THEN dir
        ELSE IF rooted THEN TypedPath(dir.kind, drive \o path)
        ELSE IF ends THEN TypedPath(dir.kind, dir.text \o path)
        ELSE TypedPath(dir.kind, dir.text \o <<sep>> \o path)

\* PathBuf::try_from(TypedPathBuf): only a path of the host's family
\* converts, and on Windows only valid UTF-8.
PathBuf_try_from(host, p) ==
    IF p.kind # host THEN Err(p)
    ELSE IF host = "Windows" /\ \E i \in 1..Len(p.text) : p.text[i] = NonUtf8Name THEN Err(p)
    ELSE Ok(p.text)

\* Path::exists
exists(files, path) == path \in files

\* SourceLocation::combined_typed_path
combined_typed_path(dir, f) ==
    IF dir = None THEN None
    ELSE IF f = None THEN None
    ELSE Some(join(dir.val, f.val))

NotFound == Err("Unable to find source file")

\* combined_path without the look at the file system.
combined_path_unchecked(dir, f, host, files) ==
    LET combined == combined_typed_path(dir, f)
        converted == IF combined = None THEN None
                     ELSE LET r == PathBuf_try_from(host, combined.val)
                          IN  IF r.tag = "Ok" THEN Some(r.val) ELSE None
    IN  IF converted # None THEN Ok(converted.val) ELSE NotFound

\* SourceLocation::combined_path
combined_path(dir, f, host, files) ==
    LET combined == combined_typed_path(dir, f)
        converted == IF combined = None THEN None
                     ELSE LET r == PathBuf_try_from(host, combined.val)
                          IN  IF r.tag = "Ok" THEN Some(r.val) ELSE None
    IN  IF converted # None /\ exists(files, converted.val)
        THEN Ok(converted.val)
        ELSE NotFound

NoPathOp == [op |-> "none"]

PathInit ==
    /\ directory \in DirectorySamples
    /\ file \in FileSamples
    /\ native \in {"Unix", "Windows"}
    /\ fs \in FsSamples
    /\ pathOut = NoPathOp

\* No source location is resolved.
PathQuiet ==
    /\ directory = None
    /\ file = None
    /\ native = "Unix"
    /\ fs = {}
    /\ pathOut = NoPathOp

CombinedPath ==
    /\ pathOut' = [op |-> "combined_path", res |-> combined_path(directory, file, native, fs)]
    /\ UNCHANGED <<directory, file, native, fs, notPathVars>>

CombinedTypedPath ==
    /\ pathOut' = [op |-> "combined_typed_path", res |-> combined_typed_path(directory, file)]
    /\ UNCHANGED <<directory, file, native, fs, notPathVars>>

PathNext == CombinedPath \/ CombinedTypedPath

----------------------------------------------------------------------------
(* Specifications *)

InitConv == ConvInit /\ AllocQuiet /\ EvalQuiet /\ PathQuiet

InitOrd == OrdInit /\ AllocQuiet /\ EvalQuiet /\ PathQuiet

InitAlloc == AllocInit /\ ConvQuiet /\ EvalQuiet /\ PathQuiet

InitEval == EvalInit /\ ConvQuiet /\ AllocQuiet /\ PathQuiet

InitPath == PathInit /\ ConvQuiet /\ AllocQuiet /\ EvalQuiet

\* Conversions between handles, transport integers and text.
SpecConv == InitConv /\ [][ConvNext]_vars

\* Comparisons of handles.
SpecOrd == InitOrd /\ [][OrdNext]_vars

\* The path operations of one SourceLocation.
SpecPath == InitPath /\ [][PathNext]_vars

\* The evaluation loop of one Exprloc attribute.
SpecEval == InitEval /\ [][EvalNext]_vars

\* Calls from any of the handlers, interleaved at the atomic step.
SpecAlloc == InitAlloc /\ [][AllocNext]_vars

\* Calls from a single thread, one after the other.
SpecSeq == InitAlloc /\ [][SeqNext]_vars

----------------------------------------------------------------------------
(* The ranges of the transport integer, stated on the integer itself *)

\* v <= 0
NonPositive(v) == v.hi < 0 \/ (v.hi = 0 /\ v.lo = Zero32)

\* 1 <= v <= 2^32 - 1
InU32Range(v) == v.hi = 0 /\ v.lo # Zero32

\* v >= 2^32
AboveU32Range(v) == v.hi > 0

----------------------------------------------------------------------------
(* Claims on the conversions *)

\* C3: for every valid handle, converting it to its transport integer and
\* decoding that integer yields the same handle; the transport integer of a
\* valid handle is > 0 and that of Invalid is 0.
C3_RoundTrip ==
    out.op = "round_trip" =>
        /\ out.res = a
        /\ a.tag = "Valid" => CmpI64(out.sent, Zero64) = "Greater"
        /\ a = Invalid => out.sent = Zero64

C3_Witness == out.op = "round_trip" /\ a = Valid(MaxU32) /\ out.res = a

\* C4: decoding v yields Invalid for every v <= 0, the handle of value v for
\* every 1 <= v <= 2^32 - 1, and Invalid for every v >= 2^32.
C4_DecodeRanges ==
    out.op = "from_i64" =>
        /\ NonPositive(value) => out.res = Invalid
        /\ InU32Range(value) => out.res = Valid(value.lo)
        /\ AboveU32Range(value) => out.res = Invalid

\* C10: the ordering of handles is a total order that agrees with the order
\* of the transport integers, puts Invalid strictly below every valid handle,
\* and reports Equal exactly for equal handles.
C10_Order ==
    out.op = "cmp" =>
        /\ out.ab = CmpI64(out.ia, out.ib)
        /\ out.partial = Some(out.ab)
        /\ (a = Invalid /\ b.tag = "Valid") => out.ab = "Less"
        /\ (out.ab = "Equal") <=> out.eq
        /\ (out.ab = "Less") <=> (out.ba = "Greater")
        /\ (out.ab = "Less" /\ out.bc = "Less") => out.ac = "Less"
        /\ (a.tag = "Valid" /\ b.tag = "Valid") => out.ab = CmpU32(a.v, b.v)

C10_Witness ==
    /\ out.op = "cmp"
    /\ a = Invalid /\ b = Valid(U32(MaxHalf, 0)) /\ c = Valid(MaxU32)
    /\ out.ab = "Less" /\ out.bc = "Less" /\ out.ac = "Less"

----------------------------------------------------------------------------
(* Claims on the allocator *)

\* The handle v was issued before the modelled calls.
IssuedBefore(v) == v # Zero32 /\ CmpU32(v, issuedUpTo) # "Greater"

\* The modelled calls that returned a handle.
Issues == {i \in DOMAIN returned : returned[i].res.tag = "Valid"}

\* The counter values the modelled calls have read so far.
KeysRead ==
    {returned[i].key : i \in DOMAIN returned} \cup {key[h] : h \in {g \in Handlers : pc[g] = "fetched"}}

\* C1: every handle returned is distinct from every handle returned earlier
\* in the process, however many calls were made.
C1_NeverReissued ==
    \A i \in Issues :
        /\ ~IssuedBefore(returned[i].res.v)
        /\ \A j \in Issues : j < i => returned[j].res # returned[i].res

\* C2: under every interleaving of concurrent callers no two calls read the
\* same counter value, so no two calls return the same handle.
C2_NoSharedCounterValue ==
    /\ \A g, h \in Handlers :
           (g # h /\ pc[g] = "fetched" /\ pc[h] = "fetched") => key[g] # key[h]
    /\ \A i, j \in DOMAIN returned : i # j => returned[i].key # returned[j].key
    /\ \A h \in Handlers : \A i \in DOMAIN returned :
           pc[h] = "fetched" => key[h] # returned[i].key
    /\ \A k \in KeysRead : ~IssuedBefore(k)

\* C9: in a single-threaded sequence the k-th call returns the valid handle
\* of value k: each handle is greater than the one before it and no call
\* ends without a valid, positive handle.
C9_KthCallReturnsK ==
    \A i \in DOMAIN returned :
        /\ returned[i].res.tag = "Valid"
        /\ i64_from(returned[i].res) = returned[i].ord
        /\ CmpI64(i64_from(returned[i].res), Zero64) = "Greater"
        /\ i > 1 => cmp(returned[i - 1].res, returned[i].res) = "Less"

\* The fetch and the increment are one step: callers that are in the call
\* at the same time hold different counter values.
InFlightKeysDiffer ==
    \A g, h \in Handlers :
        (g # h /\ pc[g] = "fetched" /\ pc[h] = "fetched") => key[g] # key[h]

----------------------------------------------------------------------------
(* Claims on the evaluation loop *)

SupportedSizes == {1, 2, 4}

\* The last turn of the loop handled a memory request of an unsupported size.
UnsupportedSizeHandled ==
    /\ iter.exit # "none"
    /\ iter.req.kind = "RequiresMemory"
    /\ iter.req.size \notin SupportedSizes

\* The target I/O a request calls for: one read of the requested bytes, one
\* register read, or none.
ExpectedIo(req) ==
    IF req.kind = "RequiresMemory"
    THEN <<[op |-> "read", address |-> req.address, len |-> req.size]>>
    ELSE IF req.kind = "RequiresRegister"
    THEN <<[op |-> "read_core_reg", register |-> req.register]>>
    ELSE <<>>

\* The requests the loop has an answer for.
Answerable(req) ==
    \/ req.kind = "RequiresMemory" /\ req.size \in SupportedSizes
    \/ req.kind = "RequiresFrameBase" /\ stackframe_cfa # None
    \/ req.kind = "RequiresRegister" /\ req.base_type = 0
    \/ req.kind = "RequiresRelocatedAddress"

\* The resume that answers a request: its kind, and its value where the
\* request fixes it.
Answers(req, resume) ==
    /\ resume # None
    /\ \/ /\ req.kind = "RequiresMemory"
          /\ resume.val.kind = "memory"
          /\ resume.val.value.ty =
                 (IF req.size = 1 THEN "U8" ELSE IF req.size = 2 THEN "U16" ELSE "U32")
       \/ /\ req.kind = "RequiresFrameBase"
          /\ resume.val = [kind |-> "frame_base", value |-> stackframe_cfa.val]
       \/ /\ req.kind = "RequiresRegister"
          /\ resume.val = [kind |-> "register",
                           value |-> [ty |-> "Generic", v |-> core_regs[req.register]]]
       \/ /\ req.kind = "RequiresRelocatedAddress"
          /\ resume.val = [kind |-> "relocated_address", value |-> req.address]

\* The bytes b (first byte read first) as one unsigned value in a byte order.
Assemble(endian, bytes) ==
    LET n == Len(bytes)
        at(i) == IF endian = "BigEndian" THEN bytes[i] ELSE bytes[n + 1 - i]
    IN  IF n = 1 THEN [ty |-> "U8", v |-> bytes[1]]
        ELSE IF n = 2 THEN [ty |-> "U16", v |-> at(1) * 256 + at(2)]
        ELSE [ty |-> "U32", v |-> U32(at(1) * 256 + at(2), at(3) * 256 + at(4))]

\* C5 (as claimed): a memory request of a size other than 1, 2 or 4 yields
\* the unsupported-operation error, the evaluator is not resumed for it and
\* no read of the target is performed for it.
C5_UnsupportedSizeNoRead ==
    UnsupportedSizeHandled =>
        /\ iter.exit = "panic"
        /\ panicMsg = "not implemented"
        /\ iter.resume = None
        /\ iter.io = <<>>

\* C5 (amended): a memory request of a size other than 1, 2 or 4 ends the
\* evaluation with a panic and the evaluator is never resumed for it; the
\* loop first issues one read of exactly the requested size at the requested
\* address, and the panic is the unsupported-operation error when that read
\* succeeded and the read failure when it did not.
C5_UnsupportedSizeRejected ==
    UnsupportedSizeHandled =>
        /\ iter.exit = "panic"
        /\ evalPc = "panicked"
        /\ panicMsg \in {"not implemented", "Failed to read memory"}
        /\ iter.resume = None
        /\ iter.io = ExpectedIo(iter.req)

C5_Witness ==
    /\ UnsupportedSizeHandled
    /\ iter.req.size = 3
    /\ panicMsg = "not implemented"
    /\ iter.io = <<[op |-> "read", address |-> 4, len |-> 3]>>

\* C6 (as claimed): after each advance the evaluator is complete or has one
\* outstanding request of the four kinds; every request is answered by
\* exactly one resume of the matching kind, from exactly the read the request
\* calls for; and, unless the evaluator itself fails, the loop ends only when
\* the evaluator reports completion.
C6_StrictProtocol ==
    /\ evalPc = "loop" =>
           \/ result = Complete
           \/ result.kind \in {"RequiresMemory", "RequiresFrameBase", "RequiresRegister",
                               "RequiresRelocatedAddress"}
    /\ iter.req \in Requests =>
           /\ iter.exit = "resumed"
           /\ Answers(iter.req, iter.resume)
           /\ iter.io = ExpectedIo(iter.req)
    /\ result # EvalError =>
           /\ requests - resumes = (IF evalPc = "loop" /\ result \in Requests THEN 1 ELSE 0)
           /\ evalPc \in {"done", "panicked"} => result = Complete

\* C6 (amended): after each advance the evaluator is complete, has failed or
\* has exactly one outstanding request. A memory request of size 1, 2 or 4
\* and a register request with base type 0, when the read succeeds, a
\* frame-base request when the CFA is known, and a relocation request are
\* each answered by exactly one resume of the matching kind (after exactly
\* the read of the requested bytes, with the CFA, with the register's value,
\* with the address); every other request ends the evaluation with a panic
\* and without a resume. The target is accessed only for a memory or a
\* register request, once, and the loop is left normally only when the
\* evaluator reports completion.
C6_Protocol ==
    /\ evalPc = "loop" => result = Complete \/ result \in Requests
    /\ (evalPc = "loop" /\ result \in Requests) => requests = resumes + 1
    /\ (evalPc \in {"loop", "done"} /\ result = Complete) => requests = resumes
    /\ iter.exit = "resumed" =>
           /\ Answerable(iter.req)
           /\ Answers(iter.req, iter.resume)
    /\ iter.exit = "panic" =>
           /\ iter.req \in Requests
           /\ iter.resume = None
           /\ evalPc = "panicked"
           /\ requests = resumes + 1
           /\ ~Answerable(iter.req) \/ (iter.io # <<>> /\ panicMsg = "Failed to read memory")
    /\ iter.exit # "none" => iter.io = ExpectedIo(iter.req)
    /\ evalPc = "done" => (result = Complete /\ iter.exit = "break")
    /\ iter.exit = "break" => evalPc = "done"

C6_Witness ==
    /\ evalPc = "loop"
    /\ result = Complete
    /\ resumes = 2
    /\ iter.exit = "resumed"
    /\ iter.req = [kind |-> "RequiresRegister", register |-> 13, base_type |-> 0]
    /\ iter.io = <<[op |-> "read_core_reg", register |-> 13]>>

\* C7: for a memory request of size 2 or 4 the value the evaluator is resumed
\* with is assembled from the bytes read in the declared byte order (little
\* endian: the first byte read is the least significant); for size 1 it is
\* the byte read.
C7_DeclaredByteOrder ==
    (iter.exit = "resumed" /\ iter.req.kind = "RequiresMemory") =>
        iter.resume.val.value =
            Assemble(EndianReader, read(memory, iter.req.address, iter.req.size))

----------------------------------------------------------------------------
(* Claims on the source location *)

BothPresent == directory # None /\ file # None

\* The text of the directory joined with the file, when it is a path of the
\* host: of the host's family and, on Windows, valid UTF-8.
NativeJoined ==
    LET p == join(directory.val, file.val)
    IN  IF p.kind = native /\ (native = "Unix" \/ \A i \in 1..Len(p.text) : p.text[i] # NonUtf8Name)
        THEN Some(p.text) ELSE None

\* C8: combined_path returns a path only when directory and file are both
\* present, their join is a path of the host and exists there, and then it
\* returns that join; in every other case it returns an error.
\* combined_typed_path returns a value exactly when both are present.
C8_CombinedPath ==
    /\ pathOut.op = "combined_path" =>
           IF BothPresent /\ NativeJoined # None /\ NativeJoined.val \in fs
           THEN pathOut.res = Ok(NativeJoined.val)
           ELSE pathOut.res.tag = "Err"
    /\ pathOut.op = "combined_typed_path" =>
           /\ (pathOut.res # None) <=> BothPresent
           /\ BothPresent => pathOut.res = Some(join(directory.val, file.val))

C8_Witness ==
    /\ pathOut.op = "combined_path"
    /\ directory = Some(TypedPath("Unix", <<"/", "src">>))
    /\ file = Some(<<"main.rs">>)
    /\ pathOut.res = Ok(<<"/", "src", "/", "main.rs">>)

====
